---- MODULE Spec2Model ----
(***************************************************************************)
(* Model of src/src/base64.rs: the Base64 codec (encode, decode).          *)
(*                                                                         *)
(* Text is modelled as a sequence of Unicode code points (chars) and a     *)
(* byte string as a sequence of numbers in 0..255.  A Rust &str / String   *)
(* is a byte sequence that is valid UTF-8.                                 *)
(***************************************************************************)
EXTENDS Integers, Sequences, FiniteSets, TLC

(***************************************************************************)
(* Bounds of the model.                                                    *)
(***************************************************************************)
\* longest input of encode, in bytes
MaxPlainLen == 6
\* longest input of decode, in chars
MaxEncLen == 8

\* bytes the inputs of encode are built from: NUL, 'f', and the bytes of
\* U+00E9 (C3 A9), U+FFFF (EF BF BF)
PlainBytes == {0, 102, 195, 169, 239, 191}
\* chars the inputs of decode are built from: 'Z', 'g', '=', '!'
DecChars == {90, 103, 61, 33}

BoundedSeq(S, n) == UNION {[1..k -> S] : k \in 0..n}

(***************************************************************************)
(* Machine arithmetic on u32.                                              *)
(***************************************************************************)
RECURSIVE Pow2(_)
Pow2(k) == IF k = 0 THEN 1 ELSE 2 * Pow2(k - 1)

\* x << k on u32.  The code shifts a byte (<= 255) by at most 16 and an index
\* (<= 63) by at most 18: the result is below 2^24 and no bit is shifted out.
Shl(x, k) == x * Pow2(k)
\* x >> k on u32
Shr(x, k) == x \div Pow2(k)

RECURSIVE BitOr(_, _)
BitOr(a, b) ==
    IF a = 0 THEN b
    ELSE IF b = 0 THEN a
    ELSE (IF a % 2 = 1 \/ b % 2 = 1 THEN 1 ELSE 0) + 2 * BitOr(a \div 2, b \div 2)

RECURSIVE BitAnd(_, _)
BitAnd(a, b) ==
    IF a = 0 \/ b = 0 THEN 0
    ELSE (IF a % 2 = 1 /\ b % 2 = 1 THEN 1 ELSE 0) + 2 * BitAnd(a \div 2, b \div 2)

\* x as u8
AsU8(x) == x % 256

(***************************************************************************)
(* The alphabet.                                                           *)
(***************************************************************************)
\* "ABCDEFGHIJKLMNOPQRSTUVWXYZabcdefghijklmnopqrstuvwxyz0123456789+/"
BASE64_ALPHABET ==
    << 65, 66, 67, 68, 69, 70, 71, 72, 73, 74, 75, 76, 77,
       78, 79, 80, 81, 82, 83, 84, 85, 86, 87, 88, 89, 90,
       97, 98, 99, 100, 101, 102, 103, 104, 105, 106, 107, 108, 109,
       110, 111, 112, 113, 114, 115, 116, 117, 118, 119, 120, 121, 122,
       48, 49, 50, 51, 52, 53, 54, 55, 56, 57,
       43, 47 >>

\* '='
PadChar == 61

\* Option::None of a lookup
None == -1

\* BASE64_ALPHABET.chars().nth(idx)
Nth(idx) ==
    IF idx + 1 \in DOMAIN BASE64_ALPHABET THEN BASE64_ALPHABET[idx + 1] ELSE None

\* BASE64_ALPHABET.find(ch): index of the first occurrence
Find(ch) ==
    IF \E k \in DOMAIN BASE64_ALPHABET : BASE64_ALPHABET[k] = ch
    THEN (CHOOSE k \in DOMAIN BASE64_ALPHABET :
             /\ BASE64_ALPHABET[k] = ch
             /\ \A j \in 1..(k - 1) : BASE64_ALPHABET[j] # ch) - 1
    ELSE None

(***************************************************************************)
(* UTF-8 well-formedness (String::from_utf8, and the invariant of &str).   *)
(***************************************************************************)
IsCont(b) == b \in 128..191

RECURSIVE IsValidUtf8(_)
IsValidUtf8(s) ==
    IF s = <<>> THEN TRUE
    ELSE LET b == s[1]
             n == Len(s)
             rest(k) == SubSeq(s, k + 1, n)
         IN  IF b <= 127 THEN IsValidUtf8(rest(1))
             ELSE IF b \in 194..223
                  THEN n >= 2 /\ IsCont(s[2]) /\ IsValidUtf8(rest(2))
             ELSE IF b \in 224..239
                  THEN /\ n >= 3
                       /\ s[2] \in (IF b = 224 THEN 160..191
                                    ELSE IF b = 237 THEN 128..159
                                    ELSE 128..191)
                       /\ IsCont(s[3])
                       /\ IsValidUtf8(rest(3))
             ELSE IF b \in 240..244
                  THEN /\ n >= 4
                       /\ s[2] \in (IF b = 240 THEN 144..191
                                    ELSE IF b = 244 THEN 128..143
                                    ELSE 128..191)
                       /\ IsCont(s[3])
                       /\ IsCont(s[4])
                       /\ IsValidUtf8(rest(4))
             ELSE FALSE

\* the strings encode is called with
PlainInputs == {b \in BoundedSeq(PlainBytes, MaxPlainLen) : IsValidUtf8(b)}
\* the strings decode is called with
EncInputs == BoundedSeq(DecChars, MaxEncLen)

(***************************************************************************)
(* encode                                                                  *)
(***************************************************************************)
\* variant: chunks_exact(3), which drops a final chunk of 1 or 2 bytes
NumChunks_exact(bytes) == Len(bytes) \div 3

\* bytes.chunks(3): number of chunks and the k-th chunk (k from 0)
NumChunks(bytes) == (Len(bytes) + 2) \div 3
Chunk(bytes, k) ==
    SubSeq(bytes, 3 * k + 1, IF 3 * k + 3 <= Len(bytes) THEN 3 * k + 3 ELSE Len(bytes))

\* the 24-bit buffer of a chunk: buf |= (byte as u32) << (16 - i * 8)
RECURSIVE ChunkBuf(_, _, _)
ChunkBuf(chunk, i, acc) ==
    IF i >= Len(chunk) THEN acc
    ELSE ChunkBuf(chunk, i + 1, BitOr(acc, Shl(chunk[i + 1], 16 - i * 8)))

\* variant: the four 6-bit fields taken least-significant first
EncodeChunkChars_lowfirst(chunk) ==
    LET buf == ChunkBuf(chunk, 0, 0)
    IN  [j \in 1..4 |->
            LET i == j - 1
            IN  IF i < Len(chunk) + 1
                THEN Nth(BitAnd(Shr(buf, i * 6), 63))
                ELSE PadChar]

\* variant: i < chunk.len(), one symbol fewer per chunk
EncodeChunkChars_short(chunk) ==
    LET buf == ChunkBuf(chunk, 0, 0)
    IN  [j \in 1..4 |->
            LET i == j - 1
            IN  IF i < Len(chunk)
                THEN Nth(BitAnd(Shr(buf, 18 - i * 6), 63))
                ELSE PadChar]

\* variant: a 7-bit mask 0b1111111
EncodeChunkChars_mask7(chunk) ==
    LET buf == ChunkBuf(chunk, 0, 0)
    IN  [j \in 1..4 |->
            LET i == j - 1
            IN  IF i < Len(chunk) + 1
                THEN Nth(BitAnd(Shr(buf, 18 - i * 6), 127))
                ELSE PadChar]

\* the 4 chars of a chunk
EncodeChunkChars(chunk) ==
    LET buf == ChunkBuf(chunk, 0, 0)
    IN  [j \in 1..4 |->
            LET i == j - 1
            IN  IF i < Len(chunk) + 1
                THEN Nth(BitAnd(Shr(buf, 18 - i * 6), 63))
                ELSE PadChar]

(***************************************************************************)
(* decode                                                                  *)
(***************************************************************************)
\* variant: slot n shifted by n * 6, the first char in the low bits
MatchBuf_slot(buf, idx, n) == BitOr(buf, BitAnd(Shl(idx, n * 6), 16777215))

\* buf |= (idx << (18 - n * 6)) & 0xFFFFFF
MatchBuf(buf, idx, n) == BitOr(buf, BitAnd(Shl(idx, 18 - n * 6), 16777215))

\* variant: a u8 counter and 3u8.wrapping_sub(padding_count)
RangeLen_u8(lo, hi) == (hi - lo) % 256

\* padding_count is an i32: 3 - padding_count may be negative, and the range
\* 0..3 - padding_count is then empty
RangeLen(lo, hi) == IF hi > lo THEN hi - lo ELSE 0

\* variant: the bytes taken least-significant first
GroupBytes_le(buf, padding_count) ==
    [k \in 1..RangeLen(0, 3 - padding_count) |-> AsU8(Shr(buf, (k - 1) * 8))]

\* the bytes pushed when a group of 4 chars is complete
GroupBytes(buf, padding_count) ==
    [k \in 1..RangeLen(0, 3 - padding_count) |-> AsU8(Shr(buf, 16 - (k - 1) * 8))]

\* String::from_utf8(bytes).map_err(Base64Error::Utf8Error)
FromUtf8(bytes) ==
    IF IsValidUtf8(bytes) THEN [kind |-> "Ok", val |-> bytes]
    ELSE [kind |-> "Utf8Error", val |-> <<>>]

InvalidCharacter == [kind |-> "InvalidCharacter", val |-> <<>>]
NoResult == [kind |-> "none", val |-> <<>>]

\* decode as a function of its input: the loop from char i on, with the
\* locals bytes, buf and padding_count, then the conversion to a String
RECURSIVE DecodeLoop(_, _, _, _, _)
DecodeLoop(s, k, bs, bf, pad) ==
    IF k = Len(s) THEN FromUtf8(bs)
    ELSE LET ch == s[k + 1]
             n == k % 4
             pad1 == IF ch = PadChar THEN pad + 1 ELSE pad
             bf1 == IF ch = PadChar THEN bf ELSE MatchBuf(bf, Find(ch), n)
         IN  IF ch # PadChar /\ Find(ch) = None THEN InvalidCharacter
             ELSE IF n = 3
                  THEN DecodeLoop(s, k + 1, bs \o GroupBytes(bf1, pad1), 0, pad1)
                  ELSE DecodeLoop(s, k + 1, bs, bf1, pad1)

decode(s) == DecodeLoop(s, 0, <<>>, 0, 0)

(***************************************************************************)
(* The state machine: a caller that calls encode, decode, or decode on the *)
(* result of encode.                                                       *)
(***************************************************************************)
VARIABLES pc, plain, chunkIdx, out, input, i, bytes, buf, padding_count, result

vars == <<pc, plain, chunkIdx, out, input, i, bytes, buf, padding_count, result>>

encVars == <<plain, chunkIdx, out>>
decVars == <<input, i, bytes, buf, padding_count>>

Init ==
    /\ pc = "idle"
    /\ plain = <<>>
    /\ chunkIdx = 0
    /\ out = <<>>
    /\ input = <<>>
    /\ i = 0
    /\ bytes = <<>>
    /\ buf = 0
    /\ padding_count = 0
    /\ result = NoResult

\* encode(input) is called
CallEncode ==
    /\ pc = "idle"
    /\ \E b \in PlainInputs : plain' = b
    /\ chunkIdx' = 0
    /\ out' = <<>>
    /\ pc' = "encode"
    /\ UNCHANGED <<decVars, result>>

\* one chunk of encode's map; the unwrap of a failed lookup panics
EncodeChunk ==
    /\ pc = "encode"
    /\ chunkIdx < NumChunks(plain)
    /\ LET cs == EncodeChunkChars(Chunk(plain, chunkIdx))
       IN  IF \E j \in 1..4 : cs[j] = None
           THEN /\ pc' = "panic"
                /\ UNCHANGED <<out, chunkIdx>>
           ELSE /\ out' = out \o cs
                /\ chunkIdx' = chunkIdx + 1
                /\ pc' = pc
    /\ UNCHANGED <<plain, decVars, result>>

\* encode returns
EncodeReturn ==
    /\ pc = "encode"
    /\ chunkIdx = NumChunks(plain)
    /\ pc' = "encoded"
    /\ UNCHANGED <<encVars, decVars, result>>

StartDecode(s) ==
    /\ input' = s
    /\ i' = 0
    /\ bytes' = <<>>
    /\ buf' = 0
    /\ padding_count' = 0
    /\ pc' = "match"
    /\ UNCHANGED result

\* decode(input) is called on some text
CallDecode ==
    /\ pc = "idle"
    /\ \E s \in EncInputs : StartDecode(s)
    /\ UNCHANGED encVars

\* decode is called on what encode returned
CallDecodeEncoded ==
    /\ pc = "encoded"
    /\ StartDecode(out)
    /\ UNCHANGED encVars

\* where the loop goes after the match: the group's end, or the next char
AfterMatch ==
    IF i % 4 = 3
    THEN pc' = "group" /\ i' = i
    ELSE pc' = "match" /\ i' = i + 1

\* the match of a '='
DecodePadding ==
    /\ pc = "match"
    /\ i < Len(input)
    /\ input[i + 1] = PadChar
    /\ padding_count' = padding_count + 1
    /\ AfterMatch
    /\ UNCHANGED <<encVars, input, bytes, buf, result>>

\* the match of a char of the alphabet
DecodeSymbol ==
    /\ pc = "match"
    /\ i < Len(input)
    /\ input[i + 1] # PadChar
    /\ Find(input[i + 1]) # None
    /\ buf' = MatchBuf(buf, Find(input[i + 1]), i % 4)
    /\ AfterMatch
    /\ UNCHANGED <<encVars, input, bytes, padding_count, result>>

\* variant: break instead of ?, the bytes so far are returned
DecodeInvalid_break ==
    /\ pc = "match"
    /\ i < Len(input)
    /\ input[i + 1] # PadChar
    /\ Find(input[i + 1]) = None
    /\ result' = FromUtf8(bytes)
    /\ pc' = "done"
    /\ UNCHANGED <<encVars, decVars>>

\* the match of any other char: decode returns Err(InvalidCharacter)
DecodeInvalid ==
    /\ pc = "match"
    /\ i < Len(input)
    /\ input[i + 1] # PadChar
    /\ Find(input[i + 1]) = None
    /\ result' = InvalidCharacter
    /\ pc' = "done"
    /\ UNCHANGED <<encVars, decVars>>

\* if n == 3: the bytes of the group are pushed
DecodeGroup ==
    /\ pc = "group"
    /\ bytes' = bytes \o GroupBytes(buf, padding_count)
    /\ buf' = 0
    /\ i' = i + 1
    /\ pc' = "match"
    /\ UNCHANGED <<encVars, input, padding_count, result>>

\* variant: the bytes of a trailing incomplete group are pushed as well
DecodeFinish_flush ==
    /\ pc = "match"
    /\ i = Len(input)
    /\ result' = FromUtf8(bytes \o (IF i % 4 >= 2
                                     THEN GroupBytes(buf, padding_count + 4 - (i % 4))
                                     ELSE <<>>))
    /\ pc' = "done"
    /\ UNCHANGED <<encVars, decVars>>

\* the loop is over: decode returns the bytes as a String, or Err(Utf8Error)
DecodeFinish ==
    /\ pc = "match"
    /\ i = Len(input)
    /\ result' = FromUtf8(bytes)
    /\ pc' = "done"
    /\ UNCHANGED <<encVars, decVars>>

Next ==
    \/ CallEncode
    \/ EncodeChunk
    \/ EncodeReturn
    \/ CallDecode
    \/ CallDecodeEncoded
    \/ DecodePadding
    \/ DecodeSymbol
    \/ DecodeInvalid
    \/ DecodeGroup
    \/ DecodeFinish

Spec == Init /\ [][Next]_vars

TypeOK ==
    /\ pc \in {"idle", "encode", "encoded", "panic", "match", "group", "done"}
    /\ buf \in 0..16777215
    /\ padding_count \in Nat
    /\ \A k \in DOMAIN bytes : bytes[k] \in 0..255
    /\ \A k \in DOMAIN out : out[k] \in 0..127

\* the step-wise decode and the function decode agree
DecodeAgrees == pc = "done" => result = decode(input)

(***************************************************************************)
(* Vocabulary of the properties.                                           *)
(***************************************************************************)
AlphabetSet == {BASE64_ALPHABET[k] : k \in DOMAIN BASE64_ALPHABET}

\* every char of s is a symbol of the alphabet or '='
AllBase64(s) == \A k \in DOMAIN s : s[k] \in AlphabetSet \cup {PadChar}

\* decode is running, or has returned
InDecode == pc \in {"match", "group", "done"}

\* decode runs on, or has returned from, the text that encode returned
RoundTrip == InDecode /\ input = out

\* the RFC 4648 encoder, by arithmetic on the 24-bit value of a group
RECURSIVE RefEncode(_)
RefEncode(b) ==
    IF b = <<>> THEN <<>>
    ELSE LET n == Len(b)
             b2 == IF n >= 2 THEN b[2] ELSE 0
             b3 == IF n >= 3 THEN b[3] ELSE 0
             v == b[1] * 65536 + b2 * 256 + b3
             s1 == BASE64_ALPHABET[((v \div 262144) % 64) + 1]
             s2 == BASE64_ALPHABET[((v \div 4096) % 64) + 1]
             s3 == BASE64_ALPHABET[((v \div 64) % 64) + 1]
             s4 == BASE64_ALPHABET[(v % 64) + 1]
         IN  IF n >= 3 THEN <<s1, s2, s3, s4>> \o RefEncode(SubSeq(b, 4, n))
             ELSE IF n = 2 THEN <<s1, s2, s3, PadChar>>
             ELSE <<s1, s2, PadChar, PadChar>>

\* the number of '=' that s ends with
RECURSIVE TrailingPads(_)
TrailingPads(s) ==
    IF s = <<>> \/ s[Len(s)] # PadChar THEN 0
    ELSE 1 + TrailingPads(SubSeq(s, 1, Len(s) - 1))

\* the number of '=' among the chars lo..hi of s
PadsIn(s, lo, hi) == Cardinality({k \in lo..hi : s[k] = PadChar})

(***************************************************************************)
(* The properties.                                                         *)
(***************************************************************************)

\* C1: round trip.  When decode has returned from the text that encode
\* produced for a valid UTF-8 input b, the result is Ok(b).
C1_RoundTrip ==
    (pc = "done" /\ RoundTrip) => result = [kind |-> "Ok", val |-> plain]

\* a round trip of a 5-byte input with a multi-byte char has returned
C1_Witness ==
    /\ pc = "done"
    /\ RoundTrip
    /\ Len(plain) = 5
    /\ \E k \in DOMAIN plain : plain[k] > 127
    /\ result.kind = "Ok"

\* C2: what encode returns is the RFC 4648 encoding of its input: groups of
\* up to 3 bytes packed big-endian into 24 bits, 4 symbols for a 3-byte
\* group, 3 symbols and '=' for 2 bytes, 2 symbols and '==' for 1 byte,
\* concatenated in input order ("f" gives "Zg==").
C2_EncodeIsRfc4648 ==
    pc = "encoded" =>
        /\ out = RefEncode(plain)
        /\ plain = <<102>> => out = <<90, 103, 61, 61>>

\* encode has returned for an input of a full group and a 2-byte group
C2_Witness ==
    /\ pc = "encoded"
    /\ Len(plain) = 5
    /\ out[8] = PadChar
    /\ out[7] # PadChar

\* C3: decode of an input with a char outside the alphabet and '=' returns
\* InvalidCharacter, wherever the char is, with no partial result; and
\* Utf8Error is returned only for inputs made of alphabet symbols and '='.
C3_InvalidCharacterRejected ==
    pc = "done" =>
        /\ ~AllBase64(input) => result = InvalidCharacter
        /\ result.kind = "Utf8Error" => AllBase64(input)

\* decode has rejected an input whose only bad char is in a trailing
\* incomplete group, after a complete group that pushed bytes
C3_Witness ==
    /\ pc = "done"
    /\ Len(input) = 6
    /\ AllBase64(SubSeq(input, 1, 5))
    /\ input[6] \notin AlphabetSet \cup {PadChar}
    /\ bytes # <<>>
    /\ result = InvalidCharacter

\* C4: for an input of alphabet symbols and '=', decode returns what it
\* returns for the longest prefix whose length is a multiple of 4: a
\* trailing incomplete group contributes nothing.
C4_TrailingGroupIgnored ==
    (pc = "done" /\ AllBase64(input)) =>
        result = decode(SubSeq(input, 1, 4 * (Len(input) \div 4)))

\* decode has returned 3 bytes for an input of 6 symbols
C4_Witness ==
    /\ pc = "done"
    /\ Len(input) = 6
    /\ AllBase64(input)
    /\ PadsIn(input, 1, 6) = 0
    /\ result.kind = "Ok"
    /\ Len(result.val) = 3

\* C5: the text encode returns has 4 * ceil(length(b) / 3) chars: a multiple
\* of 4, and none for the empty input.
C5_EncodedLength ==
    pc = "encoded" =>
        /\ Len(out) = 4 * (Len(plain) \div 3 + (IF Len(plain) % 3 = 0 THEN 0 ELSE 1))
        /\ Len(out) % 4 = 0
        /\ plain = <<>> => out = <<>>

\* encode has returned 8 chars for 4 bytes
C5_Witness ==
    /\ pc = "encoded"
    /\ Len(plain) = 4
    /\ Len(out) = 8

\* C6: the text encode returns ends with exactly (3 - length(b) mod 3) mod 3
\* chars '=', and has no '=' before them.
C6_Padding ==
    pc = "encoded" =>
        LET p == (3 - (Len(plain) % 3)) % 3
        IN  /\ TrailingPads(out) = p
            /\ PadsIn(out, 1, Len(out)) = p

\* encode has returned a text that ends with '==' after a full group
C6_Witness ==
    /\ pc = "encoded"
    /\ Len(plain) % 3 = 1
    /\ Len(plain) > 3
    /\ TrailingPads(out) = 2

\* C7: every char of the text encode builds, other than '=', is a symbol of
\* the alphabet: the lookup of a 6-bit index never fails (no panic).
C7_AlphabetClosure ==
    /\ pc # "panic"
    /\ \A k \in DOMAIN out : out[k] # PadChar => out[k] \in AlphabetSet

\* encode has returned a text with the symbol of index 63, '/'
C7_Witness ==
    /\ pc = "encoded"
    /\ \E k \in DOMAIN out : out[k] = BASE64_ALPHABET[64]

\* C8: at the start of every group of decode the accumulator and the padding
\* counter are zero, and a complete group appends 3 minus the number of '='
\* among its own 4 chars (none when there are more than 3).
C8_GroupResets ==
    /\ (pc = "match" /\ i % 4 = 0 /\ i < Len(input)) =>
           (buf = 0 /\ padding_count = 0)
    /\ pc = "group" =>
           LET own == PadsIn(input, i - 2, i + 1)
           IN  Len(GroupBytes(buf, padding_count)) = (IF own < 3 THEN 3 - own ELSE 0)

\* C9: in decode, the match of '=' increments the padding counter and leaves
\* the accumulator and the bytes as they are; the match of an alphabet symbol
\* at slot n ORs its index into the 6 bits from bit 18 - 6n of the
\* accumulator and leaves its other bits, the padding counter and the bytes
\* as they are.
C9_MatchFrame ==
    [][(pc = "match" /\ i < Len(input) /\ pc' # "done") =>
        LET ch == input[i + 1]
            sh == Pow2(18 - 6 * (i % 4))
        IN  /\ bytes' = bytes
            /\ ch = PadChar =>
                   /\ buf' = buf
                   /\ padding_count' = padding_count + 1
            /\ ch # PadChar =>
                   /\ padding_count' = padding_count
                   /\ (buf' \div sh) % 64 = BitOr((buf \div sh) % 64, Find(ch))
                   /\ buf' \div (64 * sh) = buf \div (64 * sh)
                   /\ buf' % sh = buf % sh]_vars

\* a '=' was matched after two symbols that set the accumulator, in a second
\* group
C9_Witness ==
    /\ pc = "match"
    /\ i = 7
    /\ input[7] = PadChar
    /\ input[6] = 103
    /\ AllBase64(input)
    /\ buf # 0
    /\ bytes # <<>>

\* C10: for an input of alphabet symbols and '=', decode does not fail in its
\* loop, a complete group appends between 0 and 3 bytes whatever the padding
\* counter is, and there are at most 3 bytes per complete group.
C10_GroupBytesBounded ==
    (InDecode /\ AllBase64(input)) =>
        /\ result.kind # "InvalidCharacter"
        /\ pc = "group" => RangeLen(0, 3 - padding_count) \in 0..3
        /\ Len(bytes) <= 3 * (i \div 4)
        /\ pc = "done" => Len(bytes) <= 3 * (Len(input) \div 4)

\* a group is complete with a padding counter above 3
C10_Witness ==
    /\ pc = "group"
    /\ AllBase64(input)
    /\ padding_count > 3
    /\ buf # 0
====
